---- MODULE Spec2Model ----
(***************************************************************************)
(* Model of inventory_agent.py: a JSON-file backed inventory with four     *)
(* operations, a text command interpreter and two front ends (local CLI    *)
(* and an agent-SDK loop with fallback to the interpreter).                *)
(*                                                                         *)
(* Text is modelled as sequences of one-character strings so that lower(), *)
(* strip(), split(), join() and int() are computed, not assumed.           *)
(***************************************************************************)
EXTENDS Integers, Sequences, FiniteSets, TLC

VARIABLES
    pc,         \* position of the process: main, prompt, agent, exited, crashed
    mode,       \* front-end mode: Uninitialized, Direct, Active, LocalFallback
    inventory,  \* the mapping held by the session (run_local_cli local / run_with_sdk closure)
    file,       \* inventory_data.json
    cmd,        \* the line last read by run_local_cli
    user,       \* the line last read by the run_with_sdk loop
    ncalls,     \* tool invocations made by the agent for the current request
    output,     \* last message printed (in direct calls: last text returned)
    fault,      \* the exception that reached the top level, "none" if there is none
    addLog,     \* history: the add_item calls made so far, while only add_item was called
    onlyAdds,   \* history: TRUE while every call so far was an add_item call recorded in addLog
    trace       \* history of a scripted session: the lines typed, each with what was printed

vars == <<pc, mode, inventory, file, cmd, user, ncalls, output, fault, addLog, onlyAdds,
          trace>>

----------------------------------------------------------------------------
(* Bounds *)

MaxQty == 2          \* |quantity| of an entry stays within this
MaxToolCalls == 1    \* tool invocations the agent makes per request
MaxCalls == 3        \* add_item calls recorded in addLog
MaxScript == 6       \* lines typed in a scripted session

----------------------------------------------------------------------------
(* Text *)

UpperChars == <<"A","B","C","D","E","F","G","H","I","J","K","L","M",
                "N","O","P","Q","R","S","T","U","V","W","X","Y","Z">>
LowerChars == <<"a","b","c","d","e","f","g","h","i","j","k","l","m",
                "n","o","p","q","r","s","t","u","v","w","x","y","z">>
DigitChars == <<"0","1","2","3","4","5","6","7","8","9">>

UpperSet == {UpperChars[i] : i \in 1..26}
LowerOf == [c \in UpperSet |-> LowerChars[CHOOSE i \in 1..26 : UpperChars[i] = c]]

LowerChar(c) == IF c \in UpperSet THEN LowerOf[c] ELSE c

\* str.lower()
Lower(s) == [i \in 1..Len(s) |-> LowerChar(s[i])]

IsSpace(c) == c \in {" ", "\t"}

RECURSIVE LStrip(_)
LStrip(s) == IF s # <<>> /\ IsSpace(Head(s)) THEN LStrip(Tail(s)) ELSE s

RECURSIVE RStrip(_)
RStrip(s) ==
    IF s # <<>> /\ IsSpace(s[Len(s)]) THEN RStrip(SubSeq(s, 1, Len(s) - 1)) ELSE s

\* str.strip()
Strip(s) == RStrip(LStrip(s))

RECURSIVE SplitFrom(_, _, _, _)
SplitFrom(s, i, cur, acc) ==
    IF i > Len(s)
    THEN IF cur = <<>> THEN acc ELSE Append(acc, cur)
    ELSE IF IsSpace(s[i])
         THEN SplitFrom(s, i + 1, <<>>, IF cur = <<>> THEN acc ELSE Append(acc, cur))
         ELSE SplitFrom(s, i + 1, Append(cur, s[i]), acc)

\* str.split() with no separator: runs of whitespace separate, no empty tokens
Split(s) == SplitFrom(s, 1, <<>>, <<>>)

RECURSIVE JoinFrom(_, _)
JoinFrom(parts, i) ==
    IF i > Len(parts) THEN <<>>
    ELSE IF i = Len(parts) THEN parts[i]
    ELSE parts[i] \o <<" ">> \o JoinFrom(parts, i + 1)

\* " ".join(parts)
Join(parts) == JoinFrom(parts, 1)

DigitSet == {DigitChars[i] : i \in 1..10}
DigitOf == [c \in DigitSet |-> (CHOOSE i \in 1..10 : DigitChars[i] = c) - 1]

IsDigit(c) == c \in DigitSet
DigitVal(c) == DigitOf[c]

\* the digits part of an int() literal: digits, single underscores between them
IsDigits(b) ==
    /\ b # <<>>
    /\ \A i \in 1..Len(b) : IsDigit(b[i]) \/ b[i] = "_"
    /\ IsDigit(b[1]) /\ IsDigit(b[Len(b)])
    /\ \A i \in 1..(Len(b) - 1) : ~(b[i] = "_" /\ b[i + 1] = "_")

RECURSIVE DigitsValue(_, _)
DigitsValue(b, acc) ==
    IF b = <<>> THEN acc
    ELSE IF Head(b) = "_" THEN DigitsValue(Tail(b), acc)
    ELSE DigitsValue(Tail(b), 10 * acc + DigitVal(Head(b)))

HasSign(tok) == tok # <<>> /\ tok[1] \in {"+", "-"}
Unsigned(tok) == IF HasSign(tok) THEN Tail(tok) ELSE tok

\* int(tok) succeeds (no ValueError)
IsInt(tok) == IsDigits(Unsigned(tok))

\* int(tok), for a token int() accepts
IntValue(tok) ==
    IF tok[1] = "-" THEN 0 - DigitsValue(Unsigned(tok), 0)
    ELSE DigitsValue(Unsigned(tok), 0)

----------------------------------------------------------------------------
(* Store *)

NoFile == [exists |-> FALSE, valid |-> TRUE, members |-> {}]
CorruptFile == [exists |-> TRUE, valid |-> FALSE, members |-> {}]

EmptyInventory == [k \in {} |-> [name |-> <<>>, quantity |-> 0, price |-> 0]]

\* json.dump: the file holds one member (key, object) per key of the mapping
SaveInventory(inv) ==
    [exists |-> TRUE, valid |-> TRUE,
     members |-> {<<k, inv[k].name, inv[k].quantity, inv[k].price>> : k \in DOMAIN inv}]

\* json.load raises on content that is not valid JSON
LoadRaises(f) == f.exists /\ ~f.valid

\* load_inventory, when it does not raise: {} for a missing file, else the decoded members
LoadInventory(f) ==
    IF ~f.exists THEN EmptyInventory
    ELSE [k \in {m[1] : m \in f.members} |->
            LET m == CHOOSE m \in f.members : m[1] = k
            IN  [name |-> m[2], quantity |-> m[3], price |-> m[4]]]

----------------------------------------------------------------------------
(* Messages *)

Msg(kind, name, qty, total, price, items) ==
    [kind |-> kind, name |-> name, qty |-> qty, total |-> total,
     price |-> price, items |-> items]

NoOutput == Msg("none", <<>>, 0, 0, 0, {})
MsgAdded(qty, name, total) == Msg("Added", name, qty, total, 0, {})
MsgRemoveNotFound(name) == Msg("RemoveNotFound", name, 0, 0, 0, {})
MsgRemovedCompletely(name, qty) == Msg("RemovedCompletely", name, qty, 0, 0, {})
MsgRemoved(qty, name, total) == Msg("Removed", name, qty, total, 0, {})
MsgNotFound(name) == Msg("NotFound", name, 0, 0, 0, {})
MsgStock(name, total, price) == Msg("Stock", name, 0, total, price, {})
MsgEmpty == Msg("Empty", <<>>, 0, 0, 0, {})
MsgList(items) == Msg("List", <<>>, 0, 0, 0, items)
MsgCantParseAdd == Msg("CantParseAdd", <<>>, 0, 0, 0, {})
MsgCantParseRemove == Msg("CantParseRemove", <<>>, 0, 0, 0, {})
MsgDidntUnderstand == Msg("DidntUnderstand", <<>>, 0, 0, 0, {})
MsgGoodbye == Msg("Goodbye", <<>>, 0, 0, 0, {})
MsgExiting == Msg("Exiting", <<>>, 0, 0, 0, {})
MsgReady == Msg("Ready", <<>>, 0, 0, 0, {})
MsgAgentResponse == Msg("AgentResponse", <<>>, 0, 0, 0, {})

----------------------------------------------------------------------------
(* Operations: each yields the mapping as the call leaves it, the file as  *)
(* the call leaves it, and the returned text.                              *)

Result(inv, f, out) == [inv |-> inv, file |-> f, out |-> out, raised |-> "none"]

\* the call ended by raising exc: nothing was returned or printed
Raised(inv, f, exc) == [inv |-> inv, file |-> f, out |-> NoOutput, raised |-> exc]

\* add_item keyed by the name as given
AddItemNoLower(inv, f, name, qty, price) ==
    LET key == name
        inv2 == IF key \in DOMAIN inv
                THEN [inv EXCEPT ![key].quantity = @ + qty]
                ELSE [k \in DOMAIN inv \cup {key} |->
                        IF k = key
                        THEN [name |-> name, quantity |-> qty, price |-> price]
                        ELSE inv[k]]
    IN  Result(inv2, SaveInventory(inv2), MsgAdded(qty, name, inv2[key].quantity))

\* add_item that saves only when it inserts a new key
AddItemSaveOnInsert(inv, f, name, qty, price) ==
    LET key == Lower(name)
        inv2 == IF key \in DOMAIN inv
                THEN [inv EXCEPT ![key].quantity = @ + qty]
                ELSE [k \in DOMAIN inv \cup {key} |->
                        IF k = key
                        THEN [name |-> name, quantity |-> qty, price |-> price]
                        ELSE inv[k]]
    IN  Result(inv2, IF key \in DOMAIN inv THEN f ELSE SaveInventory(inv2),
               MsgAdded(qty, name, inv2[key].quantity))

\* add_item that also takes the price of a repeat call
AddItemUpdatePrice(inv, f, name, qty, price) ==
    LET key == Lower(name)
        inv2 == IF key \in DOMAIN inv
                THEN [inv EXCEPT ![key].quantity = @ + qty, ![key].price = price]
                ELSE [k \in DOMAIN inv \cup {key} |->
                        IF k = key
                        THEN [name |-> name, quantity |-> qty, price |-> price]
                        ELSE inv[k]]
    IN  Result(inv2, SaveInventory(inv2), MsgAdded(qty, name, inv2[key].quantity))

\* add_item that sets the quantity of an existing entry to qty
AddItemOverwrite(inv, f, name, qty, price) ==
    LET key == Lower(name)
        inv2 == IF key \in DOMAIN inv
                THEN [inv EXCEPT ![key].quantity = qty]
                ELSE [k \in DOMAIN inv \cup {key} |->
                        IF k = key
                        THEN [name |-> name, quantity |-> qty, price |-> price]
                        ELSE inv[k]]
    IN  Result(inv2, SaveInventory(inv2), MsgAdded(qty, name, inv2[key].quantity))

AddItem(inv, f, name, qty, price) ==
    LET key == Lower(name)
        inv2 == IF key \in DOMAIN inv
                THEN [inv EXCEPT ![key].quantity = @ + qty]
                ELSE [k \in DOMAIN inv \cup {key} |->
                        IF k = key
                        THEN [name |-> name, quantity |-> qty, price |-> price]
                        ELSE inv[k]]
    IN  Result(inv2, SaveInventory(inv2), MsgAdded(qty, name, inv2[key].quantity))

\* remove_item that deletes the entry only when qty exceeds the stock
RemoveItemStrict(inv, f, name, qty) ==
    LET key == Lower(name) IN
    IF key \notin DOMAIN inv
    THEN Result(inv, f, MsgRemoveNotFound(name))
    ELSE IF qty > inv[key].quantity
    THEN LET inv2 == [k \in DOMAIN inv \ {key} |-> inv[k]]
         IN  Result(inv2, SaveInventory(inv2), MsgRemovedCompletely(name, qty))
    ELSE LET inv2 == [inv EXCEPT ![key].quantity = @ - qty]
         IN  Result(inv2, SaveInventory(inv2), MsgRemoved(qty, name, inv2[key].quantity))

\* remove_item that empties the mapping when it deletes an entry
RemoveItemClearsAll(inv, f, name, qty) ==
    LET key == Lower(name) IN
    IF key \notin DOMAIN inv
    THEN Result(inv, f, MsgRemoveNotFound(name))
    ELSE IF qty >= inv[key].quantity
    THEN Result(EmptyInventory, SaveInventory(EmptyInventory), MsgRemovedCompletely(name, qty))
    ELSE LET inv2 == [inv EXCEPT ![key].quantity = @ - qty]
         IN  Result(inv2, SaveInventory(inv2), MsgRemoved(qty, name, inv2[key].quantity))

RemoveItem(inv, f, name, qty) ==
    LET key == Lower(name) IN
    IF key \notin DOMAIN inv
    THEN Result(inv, f, MsgRemoveNotFound(name))
    ELSE IF qty >= inv[key].quantity
    THEN LET inv2 == [k \in DOMAIN inv \ {key} |-> inv[k]]
         IN  Result(inv2, SaveInventory(inv2), MsgRemovedCompletely(name, qty))
    ELSE LET inv2 == [inv EXCEPT ![key].quantity = @ - qty]
         IN  Result(inv2, SaveInventory(inv2), MsgRemoved(qty, name, inv2[key].quantity))

\* check_stock that creates a zero entry for a name it does not find
CheckStockSetDefault(inv, f, name) ==
    LET key == Lower(name) IN
    IF key \notin DOMAIN inv
    THEN Result([k \in DOMAIN inv \cup {key} |->
                    IF k = key THEN [name |-> name, quantity |-> 0, price |-> 0] ELSE inv[k]],
                f, MsgNotFound(name))
    ELSE Result(inv, f, MsgStock(inv[key].name, inv[key].quantity, inv[key].price))

CheckStock(inv, f, name) ==
    LET key == Lower(name) IN
    IF key \notin DOMAIN inv
    THEN Result(inv, f, MsgNotFound(name))
    ELSE Result(inv, f, MsgStock(inv[key].name, inv[key].quantity, inv[key].price))

ListItems(inv, f) ==
    IF DOMAIN inv = {}
    THEN Result(inv, f, MsgEmpty)
    ELSE Result(inv, f,
                MsgList({<<inv[k].name, inv[k].quantity, inv[k].price>> : k \in DOMAIN inv}))

----------------------------------------------------------------------------
(* Command interpreter *)

W_add == <<"a", "d", "d">>
W_insert == <<"i", "n", "s", "e", "r", "t">>
W_remove == <<"r", "e", "m", "o", "v", "e">>
W_delete == <<"d", "e", "l", "e", "t", "e">>
W_check == <<"c", "h", "e", "c", "k">>
W_stock == <<"s", "t", "o", "c", "k">>
W_list == <<"l", "i", "s", "t">>
W_show == <<"s", "h", "o", "w">>
W_exit == <<"e", "x", "i", "t">>
W_quit == <<"q", "u", "i", "t">>

\* an interpreter that takes a quantity token int() rejects as 0
HandleQtyDefaultZero(inv, f, text) ==
    LET t == Strip(Lower(text))
        parts == Split(t)
        qty == IF Len(parts) >= 2 /\ IsInt(parts[2]) THEN IntValue(parts[2]) ELSE 0
    IN
    IF parts = <<>>
    THEN Raised(inv, f, "IndexError")
    ELSE IF parts[1] \in {W_add, W_insert} /\ Len(parts) >= 3
    THEN AddItem(inv, f, Join(SubSeq(parts, 3, Len(parts))), qty, 0)
    ELSE IF parts[1] \in {W_remove, W_delete} /\ Len(parts) >= 3
    THEN RemoveItem(inv, f, Join(SubSeq(parts, 3, Len(parts))), qty)
    ELSE IF parts[1] \in {W_check, W_stock} /\ Len(parts) >= 2
    THEN CheckStock(inv, f, Join(SubSeq(parts, 2, Len(parts))))
    ELSE IF parts[1] \in {W_list, W_show}
    THEN ListItems(inv, f)
    ELSE Result(inv, f, MsgDidntUnderstand)

HandleLocalTextCommand(inv, f, text) ==
    LET t == Strip(Lower(text))
        parts == Split(t)
    IN
    IF parts = <<>>
    THEN Raised(inv, f, "IndexError")
    ELSE IF parts[1] \in {W_add, W_insert} /\ Len(parts) >= 3
    THEN IF IsInt(parts[2])
         THEN AddItem(inv, f, Join(SubSeq(parts, 3, Len(parts))), IntValue(parts[2]), 0)
         ELSE Result(inv, f, MsgCantParseAdd)
    ELSE IF parts[1] \in {W_remove, W_delete} /\ Len(parts) >= 3
    THEN IF IsInt(parts[2])
         THEN RemoveItem(inv, f, Join(SubSeq(parts, 3, Len(parts))), IntValue(parts[2]))
         ELSE Result(inv, f, MsgCantParseRemove)
    ELSE IF parts[1] \in {W_check, W_stock} /\ Len(parts) >= 2
    THEN CheckStock(inv, f, Join(SubSeq(parts, 2, Len(parts))))
    ELSE IF parts[1] \in {W_list, W_show}
    THEN ListItems(inv, f)
    ELSE Result(inv, f, MsgDidntUnderstand)

\* cmd.strip().lower() in ("exit", "quit")
IsExit(line) == Lower(Strip(line)) \in {W_exit, W_quit}

----------------------------------------------------------------------------
(* Inputs *)

W_fig == <<"f", "i", "g">>
W_Fig == <<"F", "i", "g">>
W_yam == <<"y", "a", "m">>
W_foo == <<"f", "o", "o">>
W_ADD == <<"A", "D", "D">>
W_Quit == <<"Q", "u", "i", "t">>
Sp == <<" ">>

QtyTokens == {<<"1">>, <<"2">>, <<"0">>, <<"-", "1">>, <<"x", "1">>}
NameTokens == {W_fig, W_yam}

WellFormedLines ==
    {v \o Sp \o q \o Sp \o n :
        v \in {W_add, W_insert, W_remove, W_delete}, q \in QtyTokens, n \in NameTokens}
    \cup {v \o Sp \o n : v \in {W_check, W_stock}, n \in NameTokens}
    \cup {W_list, W_show}

OtherLines ==
    { <<>>, Sp, <<" ", "\t">>,
      W_foo, W_add, W_remove, W_check, W_add \o Sp \o <<"2">>,
      W_foo \o Sp \o <<"1">> \o Sp \o W_fig,
      Sp \o W_ADD \o <<" ", " ">> \o <<"+", "1">> \o Sp \o W_Fig \o Sp,
      W_remove \o Sp \o <<"1", ".", "5">> \o Sp \o W_fig,
      W_check \o Sp \o W_fig \o <<" ", " ">> \o W_yam,
      W_list \o Sp \o W_foo,
      W_exit, W_quit, Sp \o W_Quit \o Sp, W_exit \o Sp \o W_foo }

Lines == WellFormedLines \cup OtherLines

\* requests typed in the SDK loop
SdkRequests ==
    { <<>>, Sp, W_foo, W_list, W_exit,
      W_add \o Sp \o <<"1">> \o Sp \o W_fig,
      W_add \o Sp \o <<"x", "1">> \o Sp \o W_fig,
      W_remove \o Sp \o <<"1">> \o Sp \o W_fig }

\* arguments the agent passes to the tools
ToolNames == {W_Fig}
ToolQtys == {0, 1, 2}
ToolPrices == {5}

\* arguments of direct calls
CallNames == {W_fig, W_Fig, W_yam}
CallQtys == {-1, 0, 1, 2}
RemoveQtys == CallQtys \cup {9}
CallPrices == {0, 5}

Abs(n) == IF n < 0 THEN 0 - n ELSE n
Bounded(inv) == \A k \in DOMAIN inv : Abs(inv[k].quantity) <= MaxQty

\* a file left by an earlier session
ExistingFile ==
    SaveInventory([k \in {W_yam} |-> [name |-> W_yam, quantity |-> 1, price |-> 0]])

----------------------------------------------------------------------------
(* Front end *)

Init ==
    /\ pc = "main"
    /\ mode = "Uninitialized"
    /\ inventory = EmptyInventory
    /\ file \in {NoFile, CorruptFile, ExistingFile}
    /\ cmd = <<>>
    /\ user = <<>>
    /\ ncalls = 0
    /\ output = NoOutput
    /\ fault = "none"
    /\ addLog = <<>>
    /\ onlyAdds = FALSE
    /\ trace = <<>>

\* run_local_cli up to its first prompt, entered in mode m
RunLocalCliEnter(m) ==
    /\ mode' = m
    /\ IF LoadRaises(file)
       THEN /\ pc' = "crashed"
            /\ fault' = "JSONDecodeError"
            /\ UNCHANGED <<inventory, output>>
       ELSE /\ inventory' = LoadInventory(file)
            /\ output' = MsgReady
            /\ pc' = "prompt"
            /\ UNCHANGED fault
    /\ UNCHANGED <<file, cmd, user, ncalls, addLog, onlyAdds, trace>>

\* __main__ with --local
MainLocal ==
    /\ pc = "main"
    /\ RunLocalCliEnter("Direct")

\* __main__ without --local, the import of the SDK raises
SdkImportFails ==
    /\ pc = "main"
    /\ RunLocalCliEnter("LocalFallback")

\* __main__ without --local, the import succeeds: load, build the tools, build the agent
SdkBuild(outcome) ==
    /\ pc = "main"
    /\ IF LoadRaises(file)
       THEN /\ pc' = "crashed"
            /\ fault' = "JSONDecodeError"
            /\ UNCHANGED <<mode, inventory, output>>
       ELSE /\ inventory' = LoadInventory(file)
            /\ IF outcome = "ok"
               THEN /\ mode' = "Active"
                    /\ pc' = "prompt"
                    /\ output' = MsgReady
                    /\ UNCHANGED fault
               ELSE /\ pc' = "crashed"
                    /\ fault' = outcome
                    /\ UNCHANGED <<mode, output>>
    /\ UNCHANGED <<file, cmd, user, ncalls, addLog, onlyAdds, trace>>

\* run_local_cli: input() raises KeyboardInterrupt or EOFError
CliInterrupt ==
    /\ pc = "prompt"
    /\ mode \in {"Direct", "LocalFallback"}
    /\ output' = MsgExiting
    /\ pc' = "exited"
    /\ UNCHANGED <<mode, inventory, file, cmd, user, ncalls, fault, addLog, onlyAdds, trace>>

\* run_local_cli: one line read and processed
CliLine(c) ==
    /\ pc = "prompt"
    /\ mode \in {"Direct", "LocalFallback"}
    /\ cmd' = c
    /\ IF c = <<>>
       THEN UNCHANGED <<pc, inventory, file, output, fault>>
       ELSE IF IsExit(c)
       THEN /\ output' = MsgGoodbye
            /\ pc' = "exited"
            /\ UNCHANGED <<inventory, file, fault>>
       ELSE \E r \in {HandleLocalTextCommand(inventory, file, c)} :
            /\ Bounded(r.inv)
            /\ inventory' = r.inv
            /\ file' = r.file
            /\ IF r.raised = "none"
               THEN /\ output' = r.out
                    /\ UNCHANGED <<pc, fault>>
               ELSE /\ pc' = "crashed"
                    /\ fault' = r.raised
                    /\ UNCHANGED output
    /\ UNCHANGED <<mode, user, ncalls, addLog, onlyAdds, trace>>

\* run_with_sdk: input() raises KeyboardInterrupt or EOFError, nothing catches it
SdkInterrupt ==
    /\ pc = "prompt"
    /\ mode = "Active"
    /\ pc' = "crashed"
    /\ fault' = "EOFError"
    /\ UNCHANGED <<mode, inventory, file, cmd, user, ncalls, output, addLog, onlyAdds, trace>>

\* run_with_sdk: one line read; a request is handed to agent.run
SdkLine(u) ==
    /\ pc = "prompt"
    /\ mode = "Active"
    /\ user' = u
    /\ IF u = <<>>
       THEN UNCHANGED <<pc, output, ncalls>>
       ELSE IF IsExit(u)
       THEN /\ output' = MsgGoodbye
            /\ pc' = "exited"
            /\ UNCHANGED ncalls
       ELSE /\ pc' = "agent"
            /\ ncalls' = 0
            /\ UNCHANGED output
    /\ UNCHANGED <<mode, inventory, file, cmd, fault, addLog, onlyAdds, trace>>

\* a tool invocation by the agent: r is what the operation did to the closure's mapping;
\* the returned text goes to the agent, nothing is printed
ToolCall(r) ==
    /\ pc = "agent"
    /\ ncalls < MaxToolCalls
    /\ Bounded(r.inv)
    /\ ncalls' = ncalls + 1
    /\ inventory' = r.inv
    /\ file' = r.file
    /\ UNCHANGED <<pc, mode, cmd, user, output, fault, addLog, onlyAdds, trace>>

sdk_add_item(name, qty, price) == ToolCall(AddItem(inventory, file, name, qty, price))
sdk_remove_item(name, qty) == ToolCall(RemoveItem(inventory, file, name, qty))
sdk_check_stock(name) == ToolCall(CheckStock(inventory, file, name))
sdk_list_items == ToolCall(ListItems(inventory, file))

\* agent.run returns: the response is printed
AgentReturns ==
    /\ pc = "agent"
    /\ output' = MsgAgentResponse
    /\ pc' = "prompt"
    /\ ncalls' = 0
    /\ UNCHANGED <<mode, inventory, file, cmd, user, fault, addLog, onlyAdds, trace>>

\* a fallback that interprets the request on the mapping the tools hold
AgentRaisesStale ==
    /\ pc = "agent"
    /\ \E r \in {HandleLocalTextCommand(inventory, file, user)} :
            /\ Bounded(r.inv)
            /\ file' = r.file
            /\ IF r.raised = "none"
               THEN /\ output' = r.out
                    /\ pc' = "prompt"
                    /\ UNCHANGED fault
               ELSE /\ pc' = "crashed"
                    /\ fault' = r.raised
                    /\ UNCHANGED output
    /\ ncalls' = 0
    /\ UNCHANGED <<mode, inventory, cmd, user, addLog, onlyAdds, trace>>

\* agent.run raises: the request is interpreted locally on a freshly loaded mapping
AgentRaises ==
    /\ pc = "agent"
    /\ IF LoadRaises(file)
       THEN /\ pc' = "crashed"
            /\ fault' = "JSONDecodeError"
            /\ UNCHANGED <<file, output>>
       ELSE \E r \in {HandleLocalTextCommand(LoadInventory(file), file, user)} :
            /\ Bounded(r.inv)
            /\ file' = r.file
            /\ IF r.raised = "none"
               THEN /\ output' = r.out
                    /\ pc' = "prompt"
                    /\ UNCHANGED fault
               ELSE /\ pc' = "crashed"
                    /\ fault' = r.raised
                    /\ UNCHANGED output
    /\ ncalls' = 0
    /\ UNCHANGED <<mode, inventory, cmd, user, addLog, onlyAdds, trace>>

Next ==
    \/ MainLocal
    \/ SdkImportFails
    \/ \E outcome \in {"ok", "ToolError", "AgentError"} : SdkBuild(outcome)
    \/ CliInterrupt
    \/ \E c \in Lines : CliLine(c)
    \/ SdkInterrupt
    \/ \E u \in SdkRequests : SdkLine(u)
    \/ \E n \in ToolNames, q \in ToolQtys, p \in ToolPrices : sdk_add_item(n, q, p)
    \/ \E n \in ToolNames, q \in ToolQtys : sdk_remove_item(n, q)
    \/ \E n \in ToolNames : sdk_check_stock(n)
    \/ sdk_list_items
    \/ AgentReturns
    \/ AgentRaises

Spec == Init /\ [][Next]_vars

----------------------------------------------------------------------------
(* The four operations called directly on one mapping, as a caller of the  *)
(* module would, starting from an empty inventory and no file.             *)

InitOps ==
    /\ pc = "api"
    /\ mode = "Uninitialized"
    /\ inventory = EmptyInventory
    /\ file = NoFile
    /\ cmd = <<>>
    /\ user = <<>>
    /\ ncalls = 0
    /\ output = NoOutput
    /\ fault = "none"
    /\ addLog = <<>>
    /\ onlyAdds = TRUE
    /\ trace = <<>>

\* the call left the mapping, the file and the returned text as r says
ApiCall(r) ==
    /\ pc = "api"
    /\ Bounded(r.inv)
    /\ inventory' = r.inv
    /\ file' = r.file
    /\ output' = r.out
    /\ UNCHANGED <<pc, mode, cmd, user, ncalls, fault, trace>>

ApiAddItem(name, qty, price) ==
    /\ ApiCall(AddItem(inventory, file, name, qty, price))
    /\ IF onlyAdds /\ Len(addLog) < MaxCalls
       THEN addLog' = Append(addLog, <<name, qty>>) /\ UNCHANGED onlyAdds
       ELSE addLog' = <<>> /\ onlyAdds' = FALSE

ApiRemoveItem(name, qty) ==
    /\ ApiCall(RemoveItem(inventory, file, name, qty))
    /\ addLog' = <<>>
    /\ onlyAdds' = FALSE

ApiCheckStock(name) ==
    /\ ApiCall(CheckStock(inventory, file, name))
    /\ addLog' = <<>>
    /\ onlyAdds' = FALSE

ApiListItems ==
    /\ ApiCall(ListItems(inventory, file))
    /\ addLog' = <<>>
    /\ onlyAdds' = FALSE

NextOps ==
    \/ \E n \in CallNames, q \in CallQtys, p \in CallPrices : ApiAddItem(n, q, p)
    \/ \E n \in CallNames, q \in RemoveQtys : ApiRemoveItem(n, q)
    \/ \E n \in CallNames : ApiCheckStock(n)
    \/ ApiListItems

SpecOps == InitOps /\ [][NextOps]_vars

----------------------------------------------------------------------------
(* A Direct-mode session on an empty store in which the lines of the       *)
(* apples scenario are typed in any order; trace records each line with    *)
(* what it printed.                                                        *)

W_apples == <<"a", "p", "p", "l", "e", "s">>
LineAdd5 == W_add \o Sp \o <<"5">> \o Sp \o W_apples
LineAdd3 == W_add \o Sp \o <<"3">> \o Sp \o W_apples
LineRemove10 == W_remove \o Sp \o <<"1", "0">> \o Sp \o W_apples
LineCheck == W_check \o Sp \o W_apples

ScenarioLines == {LineAdd5, LineAdd3, LineRemove10, LineCheck, W_list}

InitScenario ==
    /\ pc = "main"
    /\ mode = "Uninitialized"
    /\ inventory = EmptyInventory
    /\ file = NoFile
    /\ cmd = <<>>
    /\ user = <<>>
    /\ ncalls = 0
    /\ output = NoOutput
    /\ fault = "none"
    /\ addLog = <<>>
    /\ onlyAdds = FALSE
    /\ trace = <<>>

\* run_local_cli: one line of the script read and processed
ScriptLine(c) ==
    /\ pc = "prompt"
    /\ mode = "Direct"
    /\ Len(trace) < MaxScript
    /\ cmd' = c
    /\ IF c = <<>>
       THEN UNCHANGED <<pc, inventory, file, output, fault>>
       ELSE IF IsExit(c)
       THEN /\ output' = MsgGoodbye
            /\ pc' = "exited"
            /\ UNCHANGED <<inventory, file, fault>>
       ELSE \E r \in {HandleLocalTextCommand(inventory, file, c)} :
            /\ inventory' = r.inv
            /\ file' = r.file
            /\ IF r.raised = "none"
               THEN /\ output' = r.out
                    /\ UNCHANGED <<pc, fault>>
               ELSE /\ pc' = "crashed"
                    /\ fault' = r.raised
                    /\ UNCHANGED output
    /\ trace' = Append(trace, <<c, output'>>)
    /\ UNCHANGED <<mode, user, ncalls, addLog, onlyAdds>>

NextScenario ==
    \/ MainLocal
    \/ \E c \in ScenarioLines : ScriptLine(c)

SpecScenario == InitScenario /\ [][NextScenario]_vars

----------------------------------------------------------------------------
(* Properties *)

FileKeys(f) == {m[1] : m \in f.members}

\* C1: every entry of the mapping (and of the file) has quantity >= 0 in every
\* reachable state.
QuantitiesNeverNegative ==
    /\ \A k \in DOMAIN inventory : inventory[k].quantity >= 0
    /\ \A m \in file.members : m[3] >= 0

RECURSIVE SumQty(_)
SumQty(log) == IF log = <<>> THEN 0 ELSE Head(log)[2] + SumQty(Tail(log))

SameNameLog ==
    /\ onlyAdds
    /\ addLog # <<>>
    /\ \A i \in 1..Len(addLog) : Lower(addLog[i][1]) = Lower(addLog[1][1])

\* C2: after add_item calls on an empty inventory that all use one name up to
\* casing, the mapping has exactly one key, the lower-cased name, and its
\* quantity is the sum of the qty arguments.
SameNameAddsSum ==
    SameNameLog =>
        /\ DOMAIN inventory = {Lower(addLog[1][1])}
        /\ inventory[Lower(addLog[1][1])].quantity = SumQty(addLog)

SameNameAddsSumWitness ==
    /\ SameNameLog
    /\ Len(addLog) = 3
    /\ Cardinality({addLog[i][1] : i \in 1..Len(addLog)}) >= 2
    /\ \A i \in 1..Len(addLog) : addLog[i][2] # 0
    /\ DOMAIN inventory = {W_fig}
    /\ inventory[W_fig].quantity = SumQty(addLog)

\* the step is a direct remove_item call on a present key: what it returned names
\* the name and the qty it was called with
RemoveStep == pc = "api" /\ output'.kind \in {"Removed", "RemovedCompletely"}

\* C3: remove_item with qty >= the entry's quantity leaves the key absent from
\* the mapping and from the file, and check_stock on the name then returns the
\* not-found message.
RemoveAtLeastStockDeletes ==
    [][(/\ RemoveStep
        /\ Lower(output'.name) \in DOMAIN inventory
        /\ output'.qty >= inventory[Lower(output'.name)].quantity)
       => /\ Lower(output'.name) \notin DOMAIN inventory'
          /\ Lower(output'.name) \notin FileKeys(file')
          /\ CheckStock(inventory', file', output'.name).out = MsgNotFound(output'.name)]_vars

RemoveAtLeastStockDeletesWitness ==
    /\ pc = "api"
    /\ output.kind = "RemovedCompletely"
    /\ output.qty = 9
    /\ Lower(output.name) \notin DOMAIN inventory
    /\ Lower(output.name) \notin FileKeys(file)
    /\ DOMAIN inventory # {}

MutatingKinds == {"Added", "Removed", "RemovedCompletely"}

\* C4: in a Direct-mode session, after every add_item and every remove_item
\* that changes the mapping the file holds exactly the in-memory mapping, and
\* once the file has been written it never differs from the mapping.
DirectFileMatchesMapping ==
    mode = "Direct" =>
        /\ output.kind \in MutatingKinds => file = SaveInventory(inventory)
        /\ (file.exists /\ file.valid) =>
              (file = SaveInventory(inventory) /\ LoadInventory(file) = inventory)

DirectFileMatchesMappingWitness ==
    /\ mode = "Direct"
    /\ output.kind = "Removed"
    /\ Cardinality(DOMAIN inventory) = 2
    /\ file = SaveInventory(inventory)

\* C5: in Delegated mode every tool invocation operates on a mapping equal to
\* the file content at the moment of the invocation.
ToolsLoadFresh ==
    [][(pc = "agent" /\ ncalls' = ncalls + 1) => inventory = LoadInventory(file)]_vars

\* C6: a failure while building the external agent (import, Tool, Agent) is
\* never fatal; the session enters local interpretation.
ConstructionFailureNotFatal ==
    /\ pc = "crashed" => fault \notin {"ToolError", "AgentError"}
    /\ fault \in {"ToolError", "AgentError"} => mode = "LocalFallback"

\* the step is the per-request fallback of the SDK loop
FallbackStep ==
    /\ pc = "agent"
    /\ \/ pc' = "crashed"
       \/ pc' = "prompt" /\ output' # MsgAgentResponse

\* C7: the mode leaves Uninitialized only at startup, LocalFallback is entered
\* only at startup and never left; in Active a failed agent invocation is
\* interpreted by the command interpreter on the inventory reloaded from the
\* file, the mode stays Active and the next request goes to the agent again.
ModeStateMachine ==
    [][/\ mode' # mode =>
            (mode = "Uninitialized" /\ pc = "main"
                /\ mode' \in {"Direct", "Active", "LocalFallback"})
       /\ mode = "LocalFallback" => mode' = "LocalFallback"
       /\ mode' \in {"Active", "LocalFallback"} => mode # "Direct"
       /\ FallbackStep =>
            LET r == HandleLocalTextCommand(LoadInventory(file), file, user) IN
            /\ mode = "Active" /\ mode' = "Active"
            /\ file' = r.file
            /\ inventory' = inventory
            /\ r.raised = "none" => (output' = r.out /\ pc' = "prompt")
       /\ (mode = "Active" /\ pc = "prompt" /\ pc' # "crashed"
                /\ user' # <<>> /\ ~IsExit(user'))
            => (pc' = "agent" /\ mode' = "Active")]_vars

\* a request is at the agent after an earlier request was served by the fallback
ModeStateMachineWitness ==
    /\ mode = "Active"
    /\ pc = "agent"
    /\ output.kind \in {"Added", "Removed", "DidntUnderstand"}
    /\ inventory # LoadInventory(file)

Verbs3 == {W_add, W_insert, W_remove, W_delete}
Verbs2 == {W_check, W_stock}
Verbs1 == {W_list, W_show}

\* the line names no verb, or has too few tokens for its verb, or has no token
Unrecognized(text) ==
    LET parts == Split(Strip(Lower(text))) IN
    \/ parts = <<>>
    \/ parts[1] \notin Verbs3 \cup Verbs2 \cup Verbs1
    \/ parts[1] \in Verbs3 /\ Len(parts) < 3
    \/ parts[1] \in Verbs2 /\ Len(parts) < 2

\* the step is run_local_cli handing the line it read to the command interpreter
CliInterpreterStep ==
    /\ pc = "prompt"
    /\ mode \in {"Direct", "LocalFallback"}
    /\ ~(pc' = "exited" /\ output' = MsgExiting)
    /\ cmd' # <<>>
    /\ ~IsExit(cmd')

\* the step hands a line to the command interpreter
InterpreterStep == CliInterpreterStep \/ FallbackStep

\* the line the step hands over
Handed == IF pc = "agent" THEN user ELSE cmd'

\* C8: for a line with an unknown first token, too few tokens for its verb, or
\* no token at all, the interpreter prints the unrecognized-command message,
\* returns normally and leaves mapping and file unchanged.
UnrecognizedReported ==
    [][(InterpreterStep /\ Unrecognized(Handed))
       => /\ output' = MsgDidntUnderstand
          /\ pc' = "prompt"
          /\ fault' = "none"
          /\ inventory' = inventory
          /\ file' = file]_vars

\* C9: in Direct and Active mode the loop ends only on exit/quit or on
\* end-of-input/interrupt at the prompt, and then gracefully, never by an
\* unhandled fault.
LoopEndsGracefully ==
    (mode \in {"Direct", "Active"} /\ output # NoOutput /\ pc \notin {"prompt", "agent"})
    => (pc = "exited" /\ fault = "none" /\ output \in {MsgGoodbye, MsgExiting})

\* the line is an add/insert/remove/delete command of at least three tokens whose
\* quantity token int() rejects
BadQuantity(text) ==
    LET parts == Split(Strip(Lower(text))) IN
    /\ Len(parts) >= 3
    /\ parts[1] \in Verbs3
    /\ ~IsInt(parts[2])

\* C10: for an add/insert/remove/delete command whose quantity token is not an
\* integer the interpreter prints the parse-error message and leaves mapping
\* and file unchanged.
BadQuantityRejected ==
    [][(InterpreterStep /\ BadQuantity(Handed))
       => /\ output' \in {MsgCantParseAdd, MsgCantParseRemove}
          /\ output' = MsgCantParseAdd <=> Split(Strip(Lower(Handed)))[1] \in {W_add, W_insert}
          /\ pc' = "prompt"
          /\ inventory' = inventory
          /\ file' = file]_vars

BadQuantityRejectedWitness ==
    /\ mode = "Direct"
    /\ output = MsgCantParseRemove
    /\ W_fig \in DOMAIN inventory
    /\ file = SaveInventory(inventory)

\* C11: when the file exists but is not valid JSON, a load of it is reported as
\* a message and does not end the process; the file is left as it is.
CorruptFileSurvived ==
    (LoadRaises(file) /\ pc # "main") => (pc # "crashed" /\ fault = "none")

\* the step is a direct call of an operation that reads only: check_stock,
\* list_items, or remove_item on a key that is absent
ReadOnlyStep ==
    /\ pc = "api"
    /\ output'.kind \in {"NotFound", "Stock", "Empty", "List", "RemoveNotFound"}

\* C12: check_stock, list_items and remove_item on an absent key leave the
\* mapping and the file exactly as they were.
ReadOnlyCallsChangeNothing ==
    [][ReadOnlyStep => (inventory' = inventory /\ file' = file)]_vars

ReadOnlyCallsChangeNothingWitness ==
    /\ pc = "api"
    /\ output.kind = "RemoveNotFound"
    /\ Lower(output.name) \notin DOMAIN inventory
    /\ DOMAIN inventory # {}
    /\ file = SaveInventory(inventory)

\* the step is a direct add_item call: what it returned names the name and qty
AddStep == pc = "api" /\ output'.kind = "Added"

\* C13: add_item on an existing key changes only that entry's quantity, to the
\* old quantity plus qty; the stored name and price stay those of the first
\* insertion.
RepeatAddKeepsNameAndPrice ==
    [][(AddStep /\ Lower(output'.name) \in DOMAIN inventory)
       => LET key == Lower(output'.name) IN
          /\ key \in DOMAIN inventory'
          /\ inventory'[key].quantity = inventory[key].quantity + output'.qty
          /\ inventory'[key].name = inventory[key].name
          /\ inventory'[key].price = inventory[key].price]_vars

\* a repeat add under another casing, on an entry first inserted with price 5
RepeatAddKeepsNameAndPriceWitness ==
    /\ pc = "api"
    /\ output.kind = "Added"
    /\ output.name = W_Fig
    /\ output.qty # 0
    /\ W_fig \in DOMAIN inventory
    /\ inventory[W_fig].name = W_fig
    /\ inventory[W_fig].price = 5
    /\ inventory[W_fig].quantity # output.qty

\* C14: every key of the mapping is the lower-cased form of the name stored in
\* its entry (in the mapping held in memory and in the file).
KeyIsLowerOfName ==
    /\ \A k \in DOMAIN inventory : k = Lower(inventory[k].name)
    /\ \A m \in file.members : m[1] = Lower(m[2])

KeyIsLowerOfNameWitness ==
    /\ W_fig \in DOMAIN inventory
    /\ inventory[W_fig].name = W_Fig
    /\ W_yam \in DOMAIN inventory
    /\ <<W_fig, W_Fig, inventory[W_fig].quantity, inventory[W_fig].price>> \in file.members

\* the step is a direct remove_item call
AnyRemoveStep ==
    /\ pc = "api"
    /\ output'.kind \in {"Removed", "RemovedCompletely", "RemoveNotFound"}

\* C17: after remove_item with any integer qty the named key is absent or holds
\* a quantity >= 1.
RemoveLeavesAbsentOrPositive ==
    [][AnyRemoveStep
       => \/ Lower(output'.name) \notin DOMAIN inventory'
          \/ inventory'[Lower(output'.name)].quantity >= 1]_vars

\* a remove with a negative qty left the entry in place
RemoveLeavesAbsentOrPositiveWitness ==
    /\ pc = "api"
    /\ output.kind = "Removed"
    /\ output.qty < 0
    /\ Lower(output.name) \in DOMAIN inventory
    /\ inventory[Lower(output.name)].quantity >= 1

\* the step is a direct add_item or remove_item call
AddOrRemoveStep == AddStep \/ AnyRemoveStep

\* C18: add_item and remove_item on a name with key k leave every entry with
\* another key unchanged, and no other key appears or disappears.
OtherEntriesUntouched ==
    [][AddOrRemoveStep
       => \A j \in (DOMAIN inventory \cup DOMAIN inventory') \ {Lower(output'.name)} :
             /\ j \in DOMAIN inventory
             /\ j \in DOMAIN inventory'
             /\ inventory'[j] = inventory[j]]_vars

OtherEntriesUntouchedWitness ==
    /\ pc = "api"
    /\ output.kind = "RemovedCompletely"
    /\ Lower(output.name) = W_fig
    /\ DOMAIN inventory = {W_yam}
    /\ inventory[W_yam].price = 5

\* the step is a tool invocation that writes the file
ToolWriteStep == pc = "agent" /\ ncalls' = ncalls + 1 /\ file' # file

\* C16: in an Active session no persisted update is lost: what a tool
\* invocation writes is the file content it found with the tool's own change
\* applied, so an entry or quantity a fallback wrote is still there afterwards.
NoPersistedUpdateLost ==
    [][ToolWriteStep
       => \E n \in ToolNames, q \in ToolQtys, p \in ToolPrices :
             \/ file' = AddItem(LoadInventory(file), file, n, q, p).file
             \/ file' = RemoveItem(LoadInventory(file), file, n, q).file]_vars

ScenarioScript == <<LineAdd5, LineCheck, LineAdd3, LineRemove10, LineCheck, W_list>>

ScenarioExpected ==
    << MsgAdded(5, W_apples, 5),
       MsgStock(W_apples, 5, 0),
       MsgAdded(3, W_apples, 8),
       MsgRemovedCompletely(W_apples, 10),
       MsgNotFound(W_apples),
       MsgEmpty >>

\* the lines typed so far are the first lines of the scenario, in its order
FollowsScript ==
    /\ Len(trace) <= Len(ScenarioScript)
    /\ \A i \in 1..Len(trace) : trace[i][1] = ScenarioScript[i]

\* C15: from an empty inventory in Direct mode, `add 5 apples`, `check apples`,
\* `add 3 apples`, `remove 10 apples`, `check apples`, `list` print in order:
\* apples quantity 5 price 0 (after the add reported 5), new quantity 8,
\* removed completely, not found, inventory is empty; the mapping ends empty.
ScenarioOutputs ==
    FollowsScript =>
        /\ \A i \in 1..Len(trace) : trace[i][2] = ScenarioExpected[i]
        /\ Len(trace) = Len(ScenarioScript) =>
              (inventory = EmptyInventory /\ file = SaveInventory(EmptyInventory))

ScenarioOutputsWitness ==
    /\ FollowsScript
    /\ Len(trace) = Len(ScenarioScript)
    /\ output = MsgEmpty
    /\ DOMAIN inventory = {}

====
